---- MODULE Spec2Model ----
(***************************************************************************)
(* A model of pygit2's src/remote.c: the Refspec and Remote objects of the *)
(* Python binding, the three transfer callbacks, fetch(), push() and the   *)
(* push status callback.  The binding drives libgit2; the steps libgit2    *)
(* takes between two calls into the binding are modelled as the transfer   *)
(* session state machine (NEGOTIATING, TRANSFERRING, UPDATING_TIPS, DONE,  *)
(* ABORTED).                                                               *)
(***************************************************************************)
EXTENDS Integers, Sequences, FiniteSets, TLC

(* ------------------------------ bounds -------------------------------- *)
\* transfer-phase callbacks the transport makes in one fetch or push
MaxXfer == 2
\* strlen of the name given to transform / rtransform
MaxLen == 3
\* strlen of the transformed name
MaxNeed == 6
\* output buffers one call may hold before the model stops following it
MaxLive == 4
\* length of a remote's list of push refspecs
MaxSpecs == 2

(* ------------------------- values of the model ------------------------ *)
NULL == "NULL"
Refs == {"r1", "r2"}
RefOrder == <<"r1", "r2">>
Oids == {"A", "B"}
ZeroOid == "0000"
Hooks == {NULL, "CALLABLE", "NOTCALLABLE"}
\* refspec strings: two well-formed ones and one libgit2 cannot parse
Refspecs == {"s1", "s2"}
BadRefspec == "bad"
\* a status message of the peer: NULL (ref accepted) or the rejection text
Msgs == {NULL, "non-fast-forward", "hook declined"}
\* what a read of freed memory may give instead of the text once stored there
Garbage == "garbage"
GIT_OK == 0
GIT_EUSER == -7
GIT_EBUFS == -6
INT_MAX == 2147483647
\* names are strings over two characters; a pattern is prefix * suffix
Chars == {"a", "b"}
Prefixes == {<<>>, <<"a">>, <<"b", "b", "b">>}
Suffixes == {<<>>, <<"b">>}
Patterns == [pre : Prefixes, suf : Suffixes]
\* the refspecs with one wildcard on each side
WildSpecs == [src : Patterns, dst : Patterns]
NoSpec == [src |-> [pre |-> <<>>, suf |-> <<>>], dst |-> [pre |-> <<>>, suf |-> <<>>]]
\* the Python error indicator: empty, or the exception that is pending
NoErr == [origin |-> "none", info |-> "none"]

VARIABLES
  pc,                \* position of the one call in progress ("idle" between calls)
  progress,          \* Remote.progress          (hook or NULL)
  transfer_progress, \* Remote.transfer_progress (hook or NULL)
  update_tips,       \* Remote.update_tips       (hook or NULL)
  push_refspecs,     \* the remote's push refspecs, in order
  tips,              \* local tracking tips, ref -> oid (ZeroOid: no such ref)
  pyerr,             \* the Python error indicator
  err,               \* the library's return code of the step last taken
  sess,              \* state of the transfer session
  remote_tips,       \* the peer's tips during a fetch
  tipq,              \* refs the tip update has still to visit
  received,          \* the session's transfer counters
  log,               \* the C callbacks the library invoked in this session
  hookcalls,         \* the arguments update_tips was invoked with
  tips0,             \* the local tracking tips when the call began
  cberr,             \* a callback signalled an error during this call
  arg,               \* push(): the refspec argument
  push_specs,        \* push(): the refspecs of the push session
  unpack_ok,         \* push(): git_push_unpack_ok
  status,            \* push(): the (ref, msg) pairs the peer reported
  sidx,              \* push(): position of git_push_status_foreach
  msg,               \* push(): the message the status callback retained
  trace,             \* push(): the steps taken, in order
  result,            \* what the call returned
  py_stats,          \* fetch(): the TransferStats returned
  t_pc,              \* position of a Refspec.transform / rtransform call
  t_op,              \* which of the two it is
  len,               \* strlen(str)
  alen,              \* the capacity of the output buffer
  need,              \* strlen of the transformed name
  libfail,           \* the library rejects the name (error other than GIT_EBUFS)
  live,              \* output buffers allocated and not freed
  str_live,          \* str is allocated and not freed
  t_err,             \* return code of git_refspec_transform / rtransform
  py_trans,          \* what the call returned
  t_spec,            \* the refspec of the call: source and destination pattern
  t_str,             \* the name given to the call
  t_out              \* the name the call returned

vars == <<pc, progress, transfer_progress, update_tips, push_refspecs, tips,
          pyerr, err, sess, remote_tips, tipq, received, log, hookcalls, tips0, cberr,
          arg, push_specs, unpack_ok, status, sidx, msg, trace, result, py_stats,
          t_pc, t_op, len, alen, need, libfail, live, str_live, t_err, py_trans,
          t_spec, t_str, t_out>>

hookvars == <<progress, transfer_progress, update_tips>>
fetchvars == <<sess, remote_tips, tipq, received, log, hookcalls, py_stats>>
pushvars == <<arg, push_specs, unpack_ok, status, sidx, msg, trace>>
xvars == <<t_pc, t_op, len, alen, need, libfail, live, str_live, t_err, py_trans,
           t_spec, t_str, t_out>>
remotevars == <<pc, progress, transfer_progress, update_tips, push_refspecs, tips,
                pyerr, err, sess, remote_tips, tipq, received, log, hookcalls, tips0,
                cberr, arg, push_specs, unpack_ok, status, sidx, msg, trace, result,
                py_stats>>

(* ----------------------------- error.c -------------------------------- *)
\* Error_set(err): the exception derived from a library return code
Error_set(e) == [origin |-> "Error_set", info |-> "libgit2 error"]
\* PyErr_SetString(GitError, text)
GitError(text) == [origin |-> "GitError", info |-> text]

(* ---------------------------- the hooks ------------------------------- *)
\* what calling a hook can do: a callable returns or raises
Outcomes(h) == IF h = "CALLABLE" THEN {"returns", "raises"} ELSE {"none"}

\* progress_cb: [ret, pyerr, called]
progress_cb(outcome) ==
  IF progress = NULL THEN [ret |-> 0, pyerr |-> pyerr, called |-> FALSE]
  ELSE IF progress # "CALLABLE"
    THEN [ret |-> -1, called |-> FALSE,
          pyerr |-> [origin |-> "callback", info |-> "progress callback is not callable"]]
  ELSE IF outcome = "raises"
    THEN [ret |-> -1, called |-> TRUE,
          pyerr |-> [origin |-> "callback", info |-> "progress raised"]]
  ELSE [ret |-> 0, pyerr |-> pyerr, called |-> TRUE]

\* mutant: a hook that raised is reported to the library as success
transfer_progress_cb_swallow(outcome) ==
  IF transfer_progress = NULL THEN [ret |-> 0, pyerr |-> pyerr, called |-> FALSE]
  ELSE IF transfer_progress # "CALLABLE"
    THEN [ret |-> -1, called |-> FALSE,
          pyerr |-> [origin |-> "callback", info |-> "transfer progress callback is not callable"]]
  ELSE IF outcome = "raises"
    THEN [ret |-> 0, called |-> TRUE,
          pyerr |-> [origin |-> "callback", info |-> "transfer_progress raised"]]
  ELSE [ret |-> 0, pyerr |-> pyerr, called |-> TRUE]

\* transfer_progress_cb: [ret, pyerr, called]
transfer_progress_cb(outcome) ==
  IF transfer_progress = NULL THEN [ret |-> 0, pyerr |-> pyerr, called |-> FALSE]
  ELSE IF transfer_progress # "CALLABLE"
    THEN [ret |-> -1, called |-> FALSE,
          pyerr |-> [origin |-> "callback", info |-> "transfer progress callback is not callable"]]
  ELSE IF outcome = "raises"
    THEN [ret |-> -1, called |-> TRUE,
          pyerr |-> [origin |-> "callback", info |-> "transfer_progress raised"]]
  ELSE [ret |-> 0, pyerr |-> pyerr, called |-> TRUE]

\* mutant: the old and the new oid change places
update_tips_cb_swapped(refname, a, b, outcome) ==
  IF update_tips = NULL THEN [ret |-> 0, pyerr |-> pyerr, calls |-> <<>>]
  ELSE IF update_tips # "CALLABLE"
    THEN [ret |-> -1, calls |-> <<>>,
          pyerr |-> [origin |-> "callback", info |-> "update tips callback is not callable"]]
  ELSE IF outcome = "raises"
    THEN [ret |-> -1, calls |-> << <<refname, b, a>> >>,
          pyerr |-> [origin |-> "callback", info |-> "update_tips raised"]]
  ELSE [ret |-> 0, pyerr |-> pyerr, calls |-> << <<refname, b, a>> >>]

\* update_tips_cb: calls is the list of argument triples the hook was called with
update_tips_cb(refname, a, b, outcome) ==
  IF update_tips = NULL THEN [ret |-> 0, pyerr |-> pyerr, calls |-> <<>>]
  ELSE IF update_tips # "CALLABLE"
    THEN [ret |-> -1, calls |-> <<>>,
          pyerr |-> [origin |-> "callback", info |-> "update tips callback is not callable"]]
  ELSE IF outcome = "raises"
    THEN [ret |-> -1, calls |-> << <<refname, a, b>> >>,
          pyerr |-> [origin |-> "callback", info |-> "update_tips raised"]]
  ELSE [ret |-> 0, pyerr |-> pyerr, calls |-> << <<refname, a, b>> >>]

\* Remote_members: the three hooks are plain attributes of the Remote
Set_progress ==
  /\ pc = "idle"
  /\ \E h \in Hooks : progress' = h
  /\ UNCHANGED <<pc, transfer_progress, update_tips, push_refspecs, tips, pyerr,
                 err, tips0, cberr, result>>
  /\ UNCHANGED fetchvars /\ UNCHANGED pushvars /\ UNCHANGED xvars

Set_transfer_progress ==
  /\ pc = "idle"
  /\ \E h \in Hooks : transfer_progress' = h
  /\ UNCHANGED <<pc, progress, update_tips, push_refspecs, tips, pyerr,
                 err, tips0, cberr, result>>
  /\ UNCHANGED fetchvars /\ UNCHANGED pushvars /\ UNCHANGED xvars

Set_update_tips ==
  /\ pc = "idle"
  /\ \E h \in Hooks : update_tips' = h
  /\ UNCHANGED <<pc, progress, transfer_progress, push_refspecs, tips, pyerr,
                 err, tips0, cberr, result>>
  /\ UNCHANGED fetchvars /\ UNCHANGED pushvars /\ UNCHANGED xvars

\* another call of the program returned with an exception left in the indicator
StaleError ==
  /\ pc = "idle"
  /\ pyerr = NoErr
  /\ pyerr' = [origin |-> "stale", info |-> "left pending by an earlier call"]
  /\ UNCHANGED <<pc, push_refspecs, tips, err, tips0, cberr, result>>
  /\ UNCHANGED hookvars /\ UNCHANGED xvars /\ UNCHANGED fetchvars /\ UNCHANGED pushvars

\* Remote_init: no hooks, callbacks registered; nothing fetched or pushed yet
Init ==
  /\ pc = "idle"
  /\ progress = NULL /\ transfer_progress = NULL /\ update_tips = NULL
  /\ push_refspecs = <<>>
  /\ tips = [r \in Refs |-> ZeroOid]
  /\ pyerr = NoErr
  /\ err = GIT_OK
  /\ sess = "IDLE"
  /\ remote_tips = [r \in Refs |-> ZeroOid]
  /\ tipq = <<>>
  /\ received = 0
  /\ log = <<>>
  /\ hookcalls = <<>>
  /\ tips0 = [r \in Refs |-> ZeroOid]
  /\ cberr = FALSE
  /\ arg = NULL
  /\ push_specs = {}
  /\ unpack_ok = FALSE
  /\ status = <<>>
  /\ sidx = 0
  /\ msg = NULL
  /\ trace = <<>>
  /\ result = "none"
  /\ py_stats = <<>>
  /\ t_pc = "idle"
  /\ t_op = "none"
  /\ len = 0 /\ alen = 0 /\ need = 0
  /\ libfail = FALSE
  /\ live = 0
  /\ str_live = FALSE
  /\ t_err = GIT_OK
  /\ py_trans = [kind |-> "none", len |-> 0]
  /\ t_spec = NoSpec
  /\ t_str = <<>>
  /\ t_out = <<>>

\* the call has returned: its locals are gone; the caller takes the exception
Return ==
  /\ pc = "ret"
  /\ pc' = "idle"
  /\ pyerr' = NoErr
  /\ err' = GIT_OK
  /\ sess' = "IDLE"
  /\ remote_tips' = [r \in Refs |-> ZeroOid]
  /\ tipq' = <<>>
  /\ received' = 0
  /\ log' = <<>>
  /\ hookcalls' = <<>>
  /\ tips0' = [r \in Refs |-> ZeroOid]
  /\ cberr' = FALSE
  /\ arg' = NULL
  /\ push_specs' = {}
  /\ unpack_ok' = FALSE
  /\ status' = <<>>
  /\ sidx' = 0
  /\ msg' = NULL
  /\ trace' = <<>>
  /\ result' = "none"
  /\ py_stats' = <<>>
  /\ UNCHANGED <<push_refspecs, tips>>
  /\ UNCHANGED hookvars /\ UNCHANGED xvars

(* ------------------------------ fetch() ------------------------------- *)
\* mutant: the entry without PyErr_Clear()
Remote_fetch_begin_noclear ==
  /\ pc = "idle"
  /\ pc' = "fetch"
  /\ sess' = "NEGOTIATING"
  /\ \E rt \in [Refs -> Oids] : remote_tips' = rt
  /\ tips0' = tips
  /\ cberr' = FALSE
  /\ UNCHANGED <<push_refspecs, tips, pyerr, err, tipq, received, log, hookcalls,
                 py_stats, result>>
  /\ UNCHANGED hookvars /\ UNCHANGED xvars /\ UNCHANGED pushvars

\* Remote_fetch, entry: PyErr_Clear(), then git_remote_fetch starts a session
Remote_fetch_begin ==
  /\ pc = "idle"
  /\ pc' = "fetch"
  /\ pyerr' = NoErr
  /\ sess' = "NEGOTIATING"
  /\ \E rt \in [Refs -> Oids] : remote_tips' = rt
  /\ tips0' = tips
  /\ cberr' = FALSE
  /\ UNCHANGED <<push_refspecs, tips, err, tipq, received, log, hookcalls,
                 py_stats, result>>
  /\ UNCHANGED hookvars /\ UNCHANGED xvars /\ UNCHANGED pushvars

\* the session was aborted: the library returns e < 0 and does nothing more
Abort(e) ==
  /\ sess' = "ABORTED"
  /\ err' = e

\* negotiation: the objects to move are determined, or the connection fails
FetchNegotiate ==
  /\ pc = "fetch" /\ sess = "NEGOTIATING"
  /\ \/ sess' = "TRANSFERRING" /\ err' = err
     \/ Abort(-1)
  /\ UNCHANGED <<pc, push_refspecs, tips, pyerr, remote_tips, tipq, received,
                 log, hookcalls, tips0, cberr, py_stats, result>>
  /\ UNCHANGED hookvars /\ UNCHANGED xvars /\ UNCHANGED pushvars

\* transfer: the peer's progress text is handed to progress_cb
FetchProgress ==
  /\ pc = "fetch" /\ sess = "TRANSFERRING"
  /\ Len(log) < MaxXfer
  /\ \E o \in Outcomes(progress) :
       LET r == progress_cb(o) IN
       /\ pyerr' = r.pyerr
       /\ log' = Append(log, "progress")
       /\ cberr' = (cberr \/ r.ret < 0)
       /\ IF r.ret < 0 THEN Abort(GIT_EUSER) ELSE UNCHANGED <<sess, err>>
  /\ UNCHANGED <<pc, push_refspecs, tips, remote_tips, tipq, received,
                 hookcalls, tips0, py_stats, result>>
  /\ UNCHANGED hookvars /\ UNCHANGED xvars /\ UNCHANGED pushvars

\* transfer: an object was received and indexed; transfer_progress_cb gets the counters
FetchTransfer ==
  /\ pc = "fetch" /\ sess = "TRANSFERRING"
  /\ Len(log) < MaxXfer
  /\ received' = received + 1
  /\ \E o \in Outcomes(transfer_progress) :
       LET r == transfer_progress_cb(o) IN
       /\ pyerr' = r.pyerr
       /\ log' = Append(log, "transfer_progress")
       /\ cberr' = (cberr \/ r.ret < 0)
       /\ IF r.ret < 0 THEN Abort(GIT_EUSER) ELSE UNCHANGED <<sess, err>>
  /\ UNCHANGED <<pc, push_refspecs, tips, remote_tips, tipq,
                 hookcalls, tips0, py_stats, result>>
  /\ UNCHANGED hookvars /\ UNCHANGED xvars /\ UNCHANGED pushvars

\* transfer: the connection fails
FetchNetworkError ==
  /\ pc = "fetch" /\ sess = "TRANSFERRING"
  /\ Abort(-1)
  /\ UNCHANGED <<pc, push_refspecs, tips, pyerr, remote_tips, tipq, received,
                 log, hookcalls, tips0, cberr, py_stats, result>>
  /\ UNCHANGED hookvars /\ UNCHANGED xvars /\ UNCHANGED pushvars

\* all objects are received: the tip update visits every ref of the peer
FetchTransferDone ==
  /\ pc = "fetch" /\ sess = "TRANSFERRING"
  /\ sess' = "UPDATING_TIPS"
  /\ tipq' = RefOrder
  /\ UNCHANGED <<pc, push_refspecs, tips, pyerr, err, remote_tips, received,
                 log, hookcalls, tips0, cberr, py_stats, result>>
  /\ UNCHANGED hookvars /\ UNCHANGED xvars /\ UNCHANGED pushvars

\* tip update of one ref: a changed ref is written, then update_tips_cb is called
FetchUpdateTip ==
  /\ pc = "fetch" /\ sess = "UPDATING_TIPS" /\ tipq # <<>>
  /\ LET ref == Head(tipq) IN
     /\ tipq' = Tail(tipq)
     /\ IF tips[ref] = remote_tips[ref]
        THEN UNCHANGED <<tips, pyerr, log, hookcalls, cberr, sess, err>>
        ELSE /\ tips' = [tips EXCEPT ![ref] = remote_tips[ref]]
             /\ \E o \in Outcomes(update_tips) :
                  LET r == update_tips_cb(ref, tips[ref], remote_tips[ref], o) IN
                  /\ pyerr' = r.pyerr
                  /\ log' = Append(log, "update_tips")
                  /\ hookcalls' = hookcalls \o r.calls
                  /\ cberr' = (cberr \/ r.ret < 0)
                  /\ IF r.ret < 0 THEN Abort(-1) ELSE UNCHANGED <<sess, err>>
  /\ UNCHANGED <<pc, push_refspecs, remote_tips, received, tips0, py_stats, result>>
  /\ UNCHANGED hookvars /\ UNCHANGED xvars /\ UNCHANGED pushvars

\* every ref was visited: git_remote_fetch returns 0
FetchDone ==
  /\ pc = "fetch" /\ sess = "UPDATING_TIPS" /\ tipq = <<>>
  /\ sess' = "DONE"
  /\ err' = GIT_OK
  /\ UNCHANGED <<pc, push_refspecs, tips, pyerr, remote_tips, tipq, received,
                 log, hookcalls, tips0, cberr, py_stats, result>>
  /\ UNCHANGED hookvars /\ UNCHANGED xvars /\ UNCHANGED pushvars

\* git_remote_stats
git_remote_stats ==
  [indexed_objects |-> received, received_objects |-> received,
   received_bytes |-> received]

\* Remote_fetch, after git_remote_fetch has returned err
Remote_fetch_return ==
  /\ pc = "fetch" /\ sess \in {"DONE", "ABORTED"}
  /\ pc' = "ret"
  /\ IF err < 0 /\ pyerr # NoErr
       THEN result' = "error" /\ UNCHANGED <<pyerr, py_stats>>
     ELSE IF err < 0
       THEN result' = "error" /\ pyerr' = Error_set(err) /\ UNCHANGED py_stats
     ELSE result' = "stats" /\ py_stats' = <<git_remote_stats>> /\ UNCHANGED pyerr
  /\ UNCHANGED <<push_refspecs, tips, err, sess, remote_tips, tipq, received,
                 log, hookcalls, tips0, cberr>>
  /\ UNCHANGED hookvars /\ UNCHANGED xvars /\ UNCHANGED pushvars

(* ------------------------------- push() ------------------------------- *)
\* the lists of (ref, msg) pairs a peer may report, in arrival order
\* (the peer reports on a ref at most once)
StatusLists ==
  {st \in UNION {[1..n -> [ref : Refs, msg : Msgs]] : n \in 0..Cardinality(Refs)} :
     \A i, j \in DOMAIN st : i # j => st[i].ref # st[j].ref}

\* the oid of the local branch that is pushed
PushedOid == "A"

\* Remote_push, entry: parse the argument, git_push_new
Remote_push_begin ==
  /\ pc = "idle"
  /\ \E r \in Refspecs \cup {BadRefspec} : arg' = r
  /\ tips0' = tips
  /\ cberr' = FALSE
  /\ msg' = NULL
  /\ \/ /\ err' = GIT_OK
        /\ pc' = "push_add"
        /\ push_specs' = {}
        /\ trace' = <<"new">>
        /\ UNCHANGED <<pyerr, result>>
     \/ /\ err' = -1
        /\ pyerr' = Error_set(-1)
        /\ result' = "error"
        /\ pc' = "ret"
        /\ UNCHANGED <<push_specs, trace>>
  /\ UNCHANGED <<push_refspecs, tips, unpack_ok, status, sidx>>
  /\ UNCHANGED hookvars /\ UNCHANGED xvars /\ UNCHANGED fetchvars

\* mutant: the remote's own push refspecs are added to the session as well
Remote_push_add_refspec_all ==
  /\ pc = "push_add"
  /\ trace' = Append(trace, "add_refspec")
  /\ IF arg = BadRefspec
       THEN err' = -1 /\ pc' = "push_error" /\ UNCHANGED push_specs
       ELSE /\ err' = GIT_OK /\ pc' = "push_finish"
            /\ push_specs' = push_specs \cup {arg}
                              \cup {push_refspecs[i] : i \in 1..Len(push_refspecs)}
  /\ UNCHANGED <<push_refspecs, tips, pyerr, tips0, cberr, arg, unpack_ok, status,
                 sidx, msg, result>>
  /\ UNCHANGED hookvars /\ UNCHANGED xvars /\ UNCHANGED fetchvars

\* git_push_add_refspec(push, refspec)
Remote_push_add_refspec ==
  /\ pc = "push_add"
  /\ trace' = Append(trace, "add_refspec")
  /\ IF arg = BadRefspec
       THEN err' = -1 /\ pc' = "push_error" /\ UNCHANGED push_specs
       ELSE err' = GIT_OK /\ pc' = "push_finish" /\ push_specs' = push_specs \cup {arg}
  /\ UNCHANGED <<push_refspecs, tips, pyerr, tips0, cberr, arg, unpack_ok, status,
                 sidx, msg, result>>
  /\ UNCHANGED hookvars /\ UNCHANGED xvars /\ UNCHANGED fetchvars

\* git_push_finish, while objects are packed and sent: transfer_progress_cb is called
PushTransfer ==
  /\ pc = "push_finish"
  /\ Len(log) < MaxXfer
  /\ \E o \in Outcomes(transfer_progress) :
       LET r == transfer_progress_cb(o) IN
       /\ pyerr' = r.pyerr
       /\ log' = Append(log, "transfer_progress")
       /\ cberr' = (cberr \/ r.ret < 0)
       /\ IF r.ret < 0
            THEN /\ err' = GIT_EUSER
                 /\ trace' = Append(trace, "finish")
                 /\ pc' = "push_error"
            ELSE UNCHANGED <<err, trace, pc>>
  /\ UNCHANGED <<push_refspecs, tips, sess, remote_tips, tipq, received, hookcalls,
                 py_stats, tips0, arg, push_specs, unpack_ok, status, sidx, msg, result>>
  /\ UNCHANGED hookvars /\ UNCHANGED xvars

\* git_push_finish returns: the connection failed, or the peer's report has arrived
Remote_push_finish ==
  /\ pc = "push_finish"
  /\ trace' = Append(trace, "finish")
  /\ \/ /\ err' = -1
        /\ pc' = "push_error"
        /\ UNCHANGED <<unpack_ok, status>>
     \/ /\ err' = GIT_OK
        /\ pc' = "push_unpack"
        /\ \E u \in BOOLEAN : unpack_ok' = u
        /\ \E st \in StatusLists : status' = st
  /\ UNCHANGED <<push_refspecs, tips, pyerr, tips0, cberr, arg, push_specs, sidx,
                 msg, result>>
  /\ UNCHANGED hookvars /\ UNCHANGED xvars /\ UNCHANGED fetchvars

\* mutant: the result of git_push_unpack_ok is not acted upon
Remote_push_unpack_check_ignored ==
  /\ pc = "push_unpack"
  /\ trace' = Append(trace, "unpack_ok")
  /\ pc' = "push_status"
  /\ sidx' = 1
  /\ UNCHANGED <<pyerr, result>>
  /\ UNCHANGED <<push_refspecs, tips, err, tips0, cberr, arg, push_specs, unpack_ok,
                 status, msg>>
  /\ UNCHANGED hookvars /\ UNCHANGED xvars /\ UNCHANGED fetchvars

\* if (!git_push_unpack_ok(push)) { git_push_free; PyErr_SetString; return NULL; }
Remote_push_unpack_check ==
  /\ pc = "push_unpack"
  /\ IF ~unpack_ok
       THEN /\ trace' = trace \o <<"unpack_ok", "free">>
            /\ pyerr' = GitError("Remote failed to unpack objects")
            /\ result' = "error"
            /\ pc' = "ret"
            /\ UNCHANGED sidx
       ELSE /\ trace' = Append(trace, "unpack_ok")
            /\ pc' = "push_status"
            /\ sidx' = 1
            /\ UNCHANGED <<pyerr, result>>
  /\ UNCHANGED <<push_refspecs, tips, err, tips0, cberr, arg, push_specs, unpack_ok,
                 status, msg>>
  /\ UNCHANGED hookvars /\ UNCHANGED xvars /\ UNCHANGED fetchvars

\* mutant: the test *msg_dst == NULL is lost, so the last message wins
push_status_foreach_callback_last(ref, m, msg_dst) ==
  [dst |-> IF m # NULL THEN m ELSE msg_dst,
   ret |-> 0]

\* push_status_foreach_callback(ref, msg, data): [dst, ret], dst the new *msg_dst
push_status_foreach_callback(ref, m, msg_dst) ==
  [dst |-> IF m # NULL /\ msg_dst = NULL THEN m ELSE msg_dst,
   ret |-> 0]

\* git_push_status_foreach: the callback is called on the next pair; a negative
\* return ends the iteration with an error
PushStatusStep ==
  /\ pc = "push_status"
  /\ sidx <= Len(status)
  /\ LET r == push_status_foreach_callback(status[sidx].ref, status[sidx].msg, msg) IN
     /\ msg' = r.dst
     /\ IF r.ret < 0
          THEN /\ err' = GIT_EUSER
               /\ trace' = Append(trace, "status_foreach")
               /\ pc' = "push_error"
               /\ UNCHANGED sidx
          ELSE /\ sidx' = sidx + 1
               /\ UNCHANGED <<err, trace, pc>>
  /\ UNCHANGED <<push_refspecs, tips, pyerr, tips0, cberr, arg, push_specs, unpack_ok,
                 status, result>>
  /\ UNCHANGED hookvars /\ UNCHANGED xvars /\ UNCHANGED fetchvars

\* git_push_status_foreach has visited every pair and returns 0
PushStatusEnd ==
  /\ pc = "push_status"
  /\ sidx > Len(status)
  /\ err' = GIT_OK
  /\ trace' = Append(trace, "status_foreach")
  /\ pc' = "push_msg"
  /\ UNCHANGED <<push_refspecs, tips, pyerr, tips0, cberr, arg, push_specs, unpack_ok,
                 status, sidx, msg, result>>
  /\ UNCHANGED hookvars /\ UNCHANGED xvars /\ UNCHANGED fetchvars

\* the texts a read of the retained message may give: the message lives in the
\* push session, so once the session is freed the pointer dangles
ReadMsg(m, steps) ==
  IF \E i \in 1..Len(steps) : steps[i] = "free" THEN {m, Garbage} ELSE {m}

\* if (msg != NULL) { git_push_free(push); PyErr_SetString(GitError, msg); return NULL; }
Remote_push_msg_check ==
  /\ pc = "push_msg"
  /\ IF msg # NULL
       THEN /\ trace' = trace \o <<"free", "read_msg">>
            /\ \E text \in ReadMsg(msg, Append(trace, "free")) : pyerr' = GitError(text)
            /\ result' = "error"
            /\ pc' = "ret"
       ELSE /\ pc' = "push_tips"
            /\ UNCHANGED <<trace, pyerr, result>>
  /\ UNCHANGED <<push_refspecs, tips, err, tips0, cberr, arg, push_specs, unpack_ok,
                 status, sidx, msg>>
  /\ UNCHANGED hookvars /\ UNCHANGED xvars /\ UNCHANGED fetchvars

\* the refs the peer accepted: reported with no message
Accepted(st) == {st[i].ref : i \in {j \in 1..Len(st) : st[j].msg = NULL}}

\* git_push_update_tips, then git_push_free and return None
Remote_push_update_tips ==
  /\ pc = "push_tips"
  /\ \/ /\ err' = -1
        /\ trace' = Append(trace, "update_tips")
        /\ pc' = "push_error"
        /\ UNCHANGED <<tips, result>>
     \/ /\ err' = GIT_OK
        /\ tips' = [r \in Refs |-> IF r \in Accepted(status) THEN PushedOid ELSE tips[r]]
        /\ trace' = trace \o <<"update_tips", "free">>
        /\ result' = "None"
        /\ pc' = "ret"
  /\ UNCHANGED <<push_refspecs, pyerr, tips0, cberr, arg, push_specs, unpack_ok,
                 status, sidx, msg>>
  /\ UNCHANGED hookvars /\ UNCHANGED xvars /\ UNCHANGED fetchvars

\* mutant: the error label returns without git_push_free
Remote_push_error_leak ==
  /\ pc = "push_error"
  /\ pyerr' = Error_set(err)
  /\ result' = "error"
  /\ pc' = "ret"
  /\ UNCHANGED <<push_refspecs, tips, err, tips0, cberr, arg, push_specs, unpack_ok,
                 status, sidx, msg, trace>>
  /\ UNCHANGED hookvars /\ UNCHANGED xvars /\ UNCHANGED fetchvars

\* error: git_push_free(push); return Error_set(err);
Remote_push_error ==
  /\ pc = "push_error"
  /\ trace' = Append(trace, "free")
  /\ pyerr' = Error_set(err)
  /\ result' = "error"
  /\ pc' = "ret"
  /\ UNCHANGED <<push_refspecs, tips, err, tips0, cberr, arg, push_specs, unpack_ok,
                 status, sidx, msg>>
  /\ UNCHANGED hookvars /\ UNCHANGED xvars /\ UNCHANGED fetchvars

\* Remote_add_push: git_remote_add_push appends a refspec it can parse
Remote_add_push ==
  /\ pc = "idle"
  /\ \E r \in Refspecs \cup {BadRefspec} :
       IF r = BadRefspec
         THEN /\ err' = -1
              /\ pyerr' = Error_set(-1)
              /\ result' = "error"
              /\ UNCHANGED push_refspecs
         ELSE /\ Len(push_refspecs) < MaxSpecs
              /\ err' = GIT_OK
              /\ push_refspecs' = Append(push_refspecs, r)
              /\ result' = "None"
              /\ UNCHANGED pyerr
  /\ pc' = "ret"
  /\ UNCHANGED <<tips, tips0, cberr>>
  /\ UNCHANGED hookvars /\ UNCHANGED xvars /\ UNCHANGED fetchvars /\ UNCHANGED pushvars

NextPush ==
  \/ Set_transfer_progress
  \/ Remote_add_push
  \/ Remote_push_begin \/ Remote_push_add_refspec
  \/ PushTransfer \/ Remote_push_finish
  \/ Remote_push_unpack_check
  \/ PushStatusStep \/ PushStatusEnd
  \/ Remote_push_msg_check
  \/ Remote_push_update_tips
  \/ Remote_push_error
  \/ Return

SpecPush == Init /\ [][NextPush]_vars

(* ---------------------- Refspec.transform / rtransform ----------------- *)
\* the capacities the next pass of the loop may ask for: alen *= alen on a C int.
\* A product above INT_MAX overflows a signed int: the build may leave any value
\* (a negative one, zero, a small or a large one).
NextCapacity(a) ==
  IF a = 0 \/ a <= INT_MAX \div a THEN {a * a} ELSE {-1, 0, 1, INT_MAX}

\* git_refspec_transform(out, outlen, spec, name): the name and its terminator
\* must fit in outlen bytes
git_refspec_transform(outlen, required, fails) ==
  IF outlen <= required THEN GIT_EBUFS
  ELSE IF fails THEN -1
  ELSE GIT_OK

\* the names of at most n characters
Names(n) == UNION {[1..k -> Chars] : k \in 0..n}

\* a name matches a pattern: the wildcard stands for any substring at its place
Matches(pat, name) ==
  /\ Len(name) >= Len(pat.pre) + Len(pat.suf)
  /\ SubSeq(name, 1, Len(pat.pre)) = pat.pre
  /\ SubSeq(name, Len(name) - Len(pat.suf) + 1, Len(name)) = pat.suf
\* the segment of a matching name the wildcard stands for
Capture(pat, name) == SubSeq(name, Len(pat.pre) + 1, Len(name) - Len(pat.suf))
\* the pattern with the segment put in place of its wildcard
Subst(pat, seg) == pat.pre \o seg \o pat.suf
\* the pattern a call matches against, and the one it substitutes into:
\* transform goes from source to destination, rtransform the other way
FromPat(op, spec) == IF op = "rtransform" THEN spec.dst ELSE spec.src
ToPat(op, spec) == IF op = "rtransform" THEN spec.src ELSE spec.dst
\* the name the library writes for a matching name
Transformed(op, spec, name) == Subst(ToPat(op, spec), Capture(FromPat(op, spec), name))

\* entry of either call on name with refspec spec: alen = len = strlen(str); the
\* library will reject a name that does not match and otherwise needs room for
\* the transformed name
BeginCall(op, spec, name) ==
  /\ t_pc' = "loop"
  /\ t_op' = op
  /\ t_spec' = spec
  /\ t_str' = name
  /\ t_out' = <<>>
  /\ len' = Len(name) /\ alen' = Len(name)
  /\ IF Matches(FromPat(op, spec), name)
       THEN /\ Len(Transformed(op, spec, name)) <= MaxNeed
            /\ need' = Len(Transformed(op, spec, name))
            /\ libfail' = FALSE
       ELSE /\ \E n \in 0..MaxNeed : need' = n
            /\ libfail' = TRUE
  /\ str_live' = TRUE
  /\ live' = 0
  /\ t_err' = GIT_OK
  /\ py_trans' = [kind |-> "none", len |-> 0]

\* Refspec_transform, entry: str = py_str_to_c_str(py_str); alen = len = strlen(str)
Refspec_transform_begin ==
  /\ t_pc = "idle"
  /\ \E spec \in WildSpecs, name \in Names(MaxLen) : BeginCall("transform", spec, name)
  /\ UNCHANGED remotevars

\* Refspec_rtransform, entry: the same with git_refspec_rtransform
Refspec_rtransform_begin ==
  /\ t_pc = "idle"
  /\ \E spec \in WildSpecs, name \in Names(MaxLen) : BeginCall("rtransform", spec, name)
  /\ UNCHANGED remotevars

\* one pass of the do-while loop: grow, malloc, call the library
Refspec_transform_attempt ==
  /\ t_pc = "loop"
  /\ live < MaxLive
  /\ \E c \in NextCapacity(alen) : alen' = c
  /\ \/ \* malloc returns NULL: free(str); return PyErr_NoMemory()
        /\ str_live' = FALSE
        /\ py_trans' = [kind |-> "NoMemory", len |-> 0]
        /\ t_pc' = "ret"
        /\ UNCHANGED <<live, t_err>>
     \/ \* malloc returns a buffer (of a size that is not negative)
        /\ alen' >= 0
        /\ live' = live + 1
        /\ t_err' = git_refspec_transform(alen', need, libfail)
        /\ t_pc' = IF t_err' = GIT_EBUFS THEN "loop" ELSE "after"
        /\ UNCHANGED <<str_live, py_trans>>
  /\ UNCHANGED <<t_op, len, need, libfail, t_spec, t_str, t_out>>
  /\ UNCHANGED remotevars

\* after the loop: free(str); an error frees trans and is raised, otherwise the
\* buffer is converted to a Python string and freed
Refspec_transform_return ==
  /\ t_pc = "after"
  /\ str_live' = FALSE
  /\ live' = live - 1
  /\ py_trans' = IF t_err < 0 THEN [kind |-> "Error_set", len |-> 0]
                 ELSE [kind |-> "str", len |-> need]
  /\ t_out' = IF t_err < 0 THEN <<>> ELSE Transformed(t_op, t_spec, t_str)
  /\ t_pc' = "ret"
  /\ UNCHANGED <<t_op, len, alen, need, libfail, t_err, t_spec, t_str>>
  /\ UNCHANGED remotevars

\* the caller has the result; the next call may begin
RefspecIdle ==
  /\ t_pc = "ret"
  /\ t_pc' = "idle"
  /\ t_op' = "none"
  /\ len' = 0 /\ alen' = 0 /\ need' = 0
  /\ libfail' = FALSE
  /\ live' = 0
  /\ str_live' = FALSE
  /\ t_err' = GIT_OK
  /\ py_trans' = [kind |-> "none", len |-> 0]
  /\ t_spec' = NoSpec
  /\ t_str' = <<>>
  /\ t_out' = <<>>
  /\ UNCHANGED remotevars

NextRefspec ==
  \/ Refspec_transform_begin \/ Refspec_rtransform_begin
  \/ Refspec_transform_attempt
  \/ Refspec_transform_return
  \/ RefspecIdle

SpecRefspec == Init /\ [][NextRefspec]_vars

NextFetch ==
  \/ Set_progress \/ Set_transfer_progress \/ Set_update_tips
  \/ StaleError
  \/ Remote_fetch_begin
  \/ FetchNegotiate \/ FetchProgress \/ FetchTransfer \/ FetchNetworkError
  \/ FetchTransferDone \/ FetchUpdateTip \/ FetchDone
  \/ Remote_fetch_return
  \/ Return

SpecFetch == Init /\ [][NextFetch]_vars

(* ============================== the claims ============================= *)
Has(seq, x) == \E i \in 1..Len(seq) : seq[i] = x
Count(seq, x) == Cardinality({i \in 1..Len(seq) : seq[i] = x})
\* the message of the first pair, in arrival order, whose message is not NULL
FirstNonNull(st) ==
  LET idx == {i \in 1..Len(st) : st[i].msg # NULL} IN
  IF idx = {} THEN NULL
  ELSE st[CHOOSE i \in idx : \A j \in idx : i <= j].msg
\* push() has returned / fetch() has returned
PushReturned == pc = "ret" /\ trace # <<>>
FetchReturned == pc = "ret" /\ sess \in {"DONE", "ABORTED"}

\* C1: a push whose peer unpacked the objects and reported at least one rejection
\* fails with GitError carrying exactly the first non-null message, and the tip
\* update is not executed (the local tracking tips are as before the call).
C1_RejectedCarriesFirstMessage ==
  (PushReturned /\ Has(trace, "status_foreach") /\ FirstNonNull(status) # NULL)
    => /\ result = "error"
       /\ pyerr = GitError(FirstNonNull(status))
       /\ ~Has(trace, "update_tips")
       /\ tips = tips0

\* C2: the status callback retains the message of the first pair with a non-null
\* message (NULL iff every pair had none), never replaces a retained message, and
\* returns 0, so the iteration visits every pair.
C2_Retained ==
  /\ pc = "push_status" => msg = FirstNonNull(SubSeq(status, 1, sidx - 1))
  /\ Has(trace, "status_foreach")
       => /\ msg = FirstNonNull(status)
          /\ (msg = NULL <=> \A i \in 1..Len(status) : status[i].msg = NULL)
          /\ sidx = Len(status) + 1
C2_FirstNonNullWins ==
  /\ []C2_Retained
  /\ [][(pc = "push_status" /\ msg # NULL) => msg' = msg]_vars
C2_Witness ==
  /\ pc = "push_msg"
  /\ Len(status) = 2
  /\ status[1].msg = NULL /\ status[2].msg # NULL
  /\ msg = status[2].msg
C2_WitnessTwo ==
  /\ pc = "push_msg"
  /\ Len(status) = 2
  /\ status[1].msg # NULL /\ status[2].msg # NULL /\ status[1].msg # status[2].msg
  /\ msg = status[1].msg

\* C3: a callback that signals an error (or is not callable) during fetch() or
\* push() makes the call fail with the callback's own error, never with the
\* error derived from the library's return code.
C3_CallbackErrorIsResult ==
  (pc = "ret" /\ cberr) => (result = "error" /\ pyerr.origin = "callback")

\* C4: in a fetch, once a callback has signalled an error the session is ABORTED
\* at once: no callback is invoked afterwards, no further tip update is
\* committed, and the session never reaches DONE.
C4_Aborted ==
  (pc \in {"fetch", "ret"} /\ sess # "IDLE" /\ (cberr \/ pyerr.origin = "callback"))
    => sess = "ABORTED"
C4_AbortIsImmediate ==
  /\ []C4_Aborted
  /\ [][(pc = "fetch" /\ (cberr \/ pyerr.origin = "callback"))
          => /\ log' = log
             /\ hookcalls' = hookcalls
             /\ tips' = tips
             /\ sess' # "DONE"]_vars
C4_Witness ==
  /\ FetchReturned /\ sess = "ABORTED" /\ cberr
  /\ log = <<"transfer_progress">>
  /\ \E r \in Refs : tips[r] # remote_tips[r]

\* C5: in transform and rtransform every retry after GIT_EBUFS asks for a strictly
\* larger capacity than the attempt before it (so the loop ends with the whole
\* string or an error), for every length of the input, 0 and 1 included.
C5_RetryAsksForMore ==
  [][(t_pc = "loop" /\ t_err = GIT_EBUFS /\ live > 0) => alen' > alen]_vars

\* C6: once the push session exists, every exit of push() has released it exactly
\* once: never twice, never not at all.
C6_FreedExactlyOnce ==
  /\ Count(trace, "free") <= 1
  /\ Has(trace, "free") => trace[1] = "new" /\ trace[Len(trace)] \in {"free", "read_msg"}
  /\ PushReturned => Count(trace, "free") = 1
C6_Witness ==
  /\ PushReturned /\ result = "error"
  /\ Has(trace, "update_tips")
  /\ Count(trace, "free") = 1

\* C9: fetch() returns either fully populated TransferStats with no error pending,
\* or exactly one error and no stats; stats are returned only if no callback
\* signalled an error, and an error pending before the call is never the result.
C9_StatsOrOneError ==
  FetchReturned =>
    \/ /\ result = "stats"
       /\ pyerr = NoErr
       /\ ~cberr
       /\ sess = "DONE"
       /\ py_stats = <<[indexed_objects |-> received, received_objects |-> received,
                        received_bytes |-> received]>>
    \/ /\ result = "error"
       /\ pyerr.origin \in {"callback", "Error_set"}
       /\ pyerr.origin = "callback" <=> cberr
       /\ py_stats = <<>>
C9_Witness ==
  /\ FetchReturned /\ result = "stats" /\ pyerr = NoErr
  /\ transfer_progress = "CALLABLE" /\ received >= 1
C9_WitnessError ==
  /\ FetchReturned /\ result = "error" /\ pyerr.origin = "Error_set" /\ received >= 1

\* C10: in a fetch that reaches DONE the update_tips hook was invoked exactly once
\* for every ref whose remote tip differed from the local tracking tip, with
\* (ref, old, new), old being the zero oid for a ref new to the local side, and
\* not at all for an unchanged ref; every such invocation came after the last
\* transfer_progress callback.
Changed == {r \in Refs : tips0[r] # remote_tips[r]}
C10_OncePerChangedRef ==
  (pc = "fetch" /\ sess = "DONE" /\ update_tips = "CALLABLE")
    => /\ \A r \in Refs :
            Count(hookcalls, <<r, tips0[r], remote_tips[r]>>)
              = IF r \in Changed THEN 1 ELSE 0
       /\ Len(hookcalls) = Cardinality(Changed)
       /\ \A i \in 1..Len(hookcalls) :
            tips0[hookcalls[i][1]] = ZeroOid => hookcalls[i][2] = ZeroOid
       /\ \A i, j \in 1..Len(log) :
            (log[i] = "update_tips" /\ log[j] = "transfer_progress") => j < i
C10_Witness ==
  /\ pc = "fetch" /\ sess = "DONE" /\ update_tips = "CALLABLE"
  /\ hookcalls = << <<"r1", "A", "B">> >>
  /\ tips0["r2"] = remote_tips["r2"]
  /\ Has(log, "transfer_progress")
C10_WitnessNew ==
  /\ pc = "fetch" /\ sess = "DONE" /\ update_tips = "CALLABLE"
  /\ hookcalls = << <<"r1", ZeroOid, "A">>, <<"r2", ZeroOid, "B">> >>

\* C11: with one wildcard in source and destination, transform(s) of a name s that
\* matches the source succeeds with a name d that matches the destination, and
\* rtransform(d) gives s back; transform of a name that does not match fails and
\* returns no string.  (Success includes that the call ends: buffers of strictly
\* growing capacity fit the name after at most need + 2 attempts.  Running out
\* of memory is not counted against the claim.)
C11_TransformRoundTrip ==
  t_op = "transform" =>
    IF Matches(t_spec.src, t_str)
    THEN /\ live <= need + 2
         /\ (t_pc = "ret" /\ py_trans.kind # "NoMemory")
              => /\ py_trans.kind = "str"
                 /\ Matches(t_spec.dst, t_out)
                 /\ Len(t_out) = py_trans.len
                 /\ Transformed("rtransform", t_spec, t_out) = t_str
    ELSE (t_pc = "ret" /\ py_trans.kind # "NoMemory")
              => py_trans.kind = "Error_set" /\ t_out = <<>>

\* C12: the steps of push() run in the order add-refspec, finish, unpack check,
\* status aggregation, tip update, each only if every earlier one succeeded; when
\* the peer did not unpack the objects push() fails with the unpack error without
\* consulting the status callback and without updating tips, whatever per-ref
\* rejections the peer reported.
PushOrder == <<"new", "add_refspec", "finish", "unpack_ok", "status_foreach", "update_tips">>
\* the steps of the trace that are steps of the push (not the release, not the read)
StepsOf(tr) == SelectSeq(tr, LAMBDA x : x \notin {"free", "read_msg"})
C12_StepsInOrder ==
  /\ LET st == StepsOf(trace) IN
       /\ Len(st) <= Len(PushOrder)
       /\ st = SubSeq(PushOrder, 1, Len(st))
  \* a failed step is the last one
  /\ (trace # <<>> /\ err < 0) => pc \in {"push_error", "ret"}
  /\ (PushReturned /\ result = "error")
       => StepsOf(trace) # PushOrder \/ err < 0
  \* the peer did not unpack
  /\ (PushReturned /\ Has(trace, "unpack_ok") /\ ~unpack_ok)
       => /\ result = "error"
          /\ pyerr = GitError("Remote failed to unpack objects")
          /\ ~Has(trace, "status_foreach")
          /\ ~Has(trace, "update_tips")
          /\ msg = NULL
          /\ tips = tips0
C12_Witness ==
  /\ PushReturned /\ Has(trace, "unpack_ok") /\ ~unpack_ok
  /\ Len(status) = 2 /\ status[1].msg # NULL
  /\ result = "error"

\* C13: the message the status callback retained lives in the push session; it is
\* read only while that session has not been released.
C13_NoReadAfterFree ==
  \A i, j \in 1..Len(trace) : (trace[i] = "free" /\ trace[j] = "read_msg") => j < i

\* C14: when transform / rtransform returns, every buffer the call allocated has
\* been freed (no output buffer and no copy of the argument is live), on the
\* success path, the library-error path and the out-of-memory path.
C14_NothingLiveAtReturn ==
  t_pc = "ret" => (live = 0 /\ ~str_live)

\* C8 (as claimed): the push session negotiates with {r} and every refspec
\* registered with add_push.
C8_SessionHasAddPushSpecs ==
  Has(trace, "add_refspec") /\ arg # BadRefspec
    => push_specs = {arg} \cup {push_refspecs[i] : i \in 1..Len(push_refspecs)}
\* C8 (amended): the push session negotiates with exactly {r}; refspecs registered
\* with add_push stay on the remote and are not added to the session by push().
C8_SessionHasOnlyArgument ==
  /\ Has(trace, "add_refspec") /\ arg # BadRefspec => push_specs = {arg}
  /\ ~Has(trace, "add_refspec") \/ arg = BadRefspec => push_specs = {}
C8_Witness ==
  /\ PushReturned /\ result = "None"
  /\ Len(push_refspecs) = 2
  /\ push_refspecs[1] # arg /\ push_refspecs[2] # push_refspecs[1]
  /\ push_specs = {arg}


====
